---- MODULE Spec2Model ----
(***************************************************************************)
(* Model of the Zulip MCP server (src/index.ts): the ZulipClient facade,   *)
(* the call-tool and list-tools request handlers and the startup sequence  *)
(* of main().                                                              *)
(***************************************************************************)
EXTENDS Integers, Sequences, FiniteSets, TLC

(***************************************************************************)
(* Bounds of the model.                                                    *)
(***************************************************************************)
\* number of call-tool handlers that may be suspended at the same time
MaxInFlight == 1
\* largest explicit `limit` argument of zulip_get_channel_history
MaxLimit == 7

(***************************************************************************)
(* JavaScript values.  Every value carries its type tag so that values of  *)
(* different types can be compared.                                        *)
(***************************************************************************)
Undefined == [t |-> "undefined"]
Null == [t |-> "null"]
Bool(b) == [t |-> "bool", b |-> b]
Num(n) == [t |-> "num", n |-> n]
Str(s) == [t |-> "str", s |-> s]
Arr(a) == [t |-> "arr", a |-> a]
\* an object is the sequence of its own properties, in insertion order
Prop(k, v) == [k |-> k, v |-> v]
Obj(o) == [t |-> "obj", o |-> o]
\* an instance of Error with the given message
Err(m) == [t |-> "Error", message |-> m]

\* JavaScript truthiness, as used by the `!x` tests of the handler
Truthy(v) ==
  CASE v.t = "undefined" -> FALSE
    [] v.t = "null" -> FALSE
    [] v.t = "bool" -> v.b
    [] v.t = "num" -> v.n # 0
    [] v.t = "str" -> v.s # ""
    [] OTHER -> TRUE

\* property read o.k of an object value: undefined when o has no such property
Get(o, k) ==
  IF \E i \in 1..Len(o.o) : o.o[i].k = k
  THEN o.o[CHOOSE i \in 1..Len(o.o) : o.o[i].k = k /\ \A j \in 1..(i - 1) : o.o[j].k # k].v
  ELSE Undefined

\* String(v), for the values a failure can be
String(v) ==
  CASE v.t = "str" -> v.s
    [] v.t = "undefined" -> "undefined"
    [] v.t = "null" -> "null"
    [] v.t = "bool" -> IF v.b THEN "true" ELSE "false"
    [] v.t = "num" -> ToString(v.n)
    [] v.t = "Error" -> "Error: " \o v.message
    [] OTHER -> "[object Object]"

(***************************************************************************)
(* JSON.stringify and JSON.parse.  A JSON text is the sequence of its      *)
(* lexical tokens.                                                         *)
(***************************************************************************)
Tok(k) == [k |-> k]
StrTok(s) == [k |-> "str", s |-> s]
NumTok(n) == [k |-> "num", n |-> n]

RECURSIVE Serialize(_)
RECURSIVE SerializeElems(_)
RECURSIVE SerializeProps(_)

\* the elements of an array; an undefined element is written as null
SerializeElems(a) ==
  IF a = <<>> THEN <<>>
  ELSE (IF Head(a).t = "undefined" THEN <<Tok("null")>> ELSE Serialize(Head(a)))
       \o (IF Len(a) > 1 THEN <<Tok(",")>> \o SerializeElems(Tail(a)) ELSE <<>>)

\* the properties of an object (those with an undefined value already removed)
SerializeProps(o) ==
  IF o = <<>> THEN <<>>
  ELSE <<StrTok(Head(o).k), Tok(":")>> \o Serialize(Head(o).v)
       \o (IF Len(o) > 1 THEN <<Tok(",")>> \o SerializeProps(Tail(o)) ELSE <<>>)

Serialize(v) ==
  CASE v.t = "null" -> <<Tok("null")>>
    [] v.t = "bool" -> <<Tok(IF v.b THEN "true" ELSE "false")>>
    [] v.t = "num" -> <<NumTok(v.n)>>
    [] v.t = "str" -> <<StrTok(v.s)>>
    [] v.t = "arr" -> <<Tok("[")>> \o SerializeElems(v.a) \o <<Tok("]")>>
    [] v.t = "obj" -> <<Tok("{")>>
                      \o SerializeProps(SelectSeq(v.o, LAMBDA p : p.v.t # "undefined"))
                      \o <<Tok("}")>>
    \* an Error has no enumerable own properties
    [] OTHER -> <<Tok("{"), Tok("}")>>

\* JSON.stringify(v): a JSON text, or undefined when v is undefined
JSONstringify(v) == IF v.t = "undefined" THEN Undefined ELSE Serialize(v)

RECURSIVE ParseValue(_, _)
RECURSIVE ParseElems(_, _, _)
RECURSIVE ParseProps(_, _, _)

\* parse the elements of an array from token i on; acc holds those read so far
ParseElems(toks, i, acc) ==
  LET r == ParseValue(toks, i)
      acc2 == Append(acc, r.v)
  IN IF toks[r.next].k = ","
     THEN ParseElems(toks, r.next + 1, acc2)
     ELSE [v |-> Arr(acc2), next |-> r.next + 1]

\* parse the properties of an object from token i on
ParseProps(toks, i, acc) ==
  LET r == ParseValue(toks, i + 2)
      acc2 == Append(acc, Prop(toks[i].s, r.v))
  IN IF toks[r.next].k = ","
     THEN ParseProps(toks, r.next + 1, acc2)
     ELSE [v |-> Obj(acc2), next |-> r.next + 1]

\* parse the value that starts at token i; next is the token after it
ParseValue(toks, i) ==
  LET tok == toks[i]
  IN CASE tok.k = "null" -> [v |-> Null, next |-> i + 1]
       [] tok.k = "true" -> [v |-> Bool(TRUE), next |-> i + 1]
       [] tok.k = "false" -> [v |-> Bool(FALSE), next |-> i + 1]
       [] tok.k = "num" -> [v |-> Num(tok.n), next |-> i + 1]
       [] tok.k = "str" -> [v |-> Str(tok.s), next |-> i + 1]
       [] tok.k = "[" -> IF toks[i + 1].k = "]"
                         THEN [v |-> Arr(<<>>), next |-> i + 2]
                         ELSE ParseElems(toks, i + 1, <<>>)
       [] tok.k = "{" -> IF toks[i + 1].k = "}"
                         THEN [v |-> Obj(<<>>), next |-> i + 2]
                         ELSE ParseProps(toks, i + 1, <<>>)

JSONparse(text) == ParseValue(text, 1).v

(***************************************************************************)
(* The tool catalog: the descriptors' names and required fields.           *)
(***************************************************************************)
listChannelsTool == [name |-> "zulip_list_channels", required |-> <<>>]
postMessageTool ==
  [name |-> "zulip_post_message", required |-> <<"channel_name", "topic", "content">>]
sendDirectMessageTool ==
  [name |-> "zulip_send_direct_message", required |-> <<"recipients", "content">>]
addReactionTool ==
  [name |-> "zulip_add_reaction", required |-> <<"message_id", "emoji_name">>]
getChannelHistoryTool ==
  [name |-> "zulip_get_channel_history", required |-> <<"channel_name", "topic">>]
getTopicsTool == [name |-> "zulip_get_topics", required |-> <<"channel_id">>]
subscribeToChannelTool ==
  [name |-> "zulip_subscribe_to_channel", required |-> <<"channel_name">>]
getUsersTool == [name |-> "zulip_get_users", required |-> <<>>]

\* the list with its last descriptor left out
ListToolsResultShort ==
  [tools |-> << listChannelsTool, postMessageTool, sendDirectMessageTool,
                addReactionTool, getChannelHistoryTool, getTopicsTool,
                subscribeToChannelTool >>]

\* the answer of the list-tools handler
ListToolsResult ==
  [tools |-> << listChannelsTool, postMessageTool, sendDirectMessageTool,
                addReactionTool, getChannelHistoryTool, getTopicsTool,
                subscribeToChannelTool, getUsersTool >>]

(***************************************************************************)
(* ZulipClient: every method either throws before it suspends or suspends  *)
(* on one remote call.                                                     *)
(***************************************************************************)
Await(call) == [kind |-> "await", call |-> call]
\* log holds what the catch blocks the failure passed through wrote with
\* console.error
Throw(e) == [kind |-> "throw", error |-> e, log |-> <<>>]
\* console.error(label, error)
Logged(label, error) == [label |-> label, error |-> error]
Call(api, params) == [api |-> api, params |-> params]
\* a string that holds a JSON text
Text(j) == [t |-> "text", j |-> j]

\* a default parameter value applies when the argument is undefined
Default(v, d) == IF v = Undefined THEN d ELSE v

\* reading a property of this.client while it is still undefined
ReadClient(client, prop, call) ==
  IF client = Undefined
  THEN Throw(Err("Cannot read properties of undefined (reading '" \o prop \o "')"))
  ELSE Await(call)

\* a catch block that throws a new Error whose message names the operation
RethrowWrapped(label, error) ==
  Err(label \o " " \o (IF error.t = "Error" THEN error.message ELSE String(error)))

\* the catch block of every method: log, then throw the same failure again
Rethrow(label, error) == error

\* a method body run inside its try block
Guarded(label, outcome) ==
  IF outcome.kind = "throw"
  THEN [ kind |-> "throw", error |-> Rethrow(label, outcome.error),
         log |-> Append(outcome.log, Logged(label, outcome.error)) ]
  ELSE outcome

getStreams(client, includePrivate, includeWebPublic, includeSubscribed) ==
  LET ip == Default(includePrivate, Bool(FALSE))
      iw == Default(includeWebPublic, Bool(TRUE))
      is == Default(includeSubscribed, Bool(TRUE))
      params == Obj((IF Truthy(ip) THEN <<Prop("include_private", Bool(TRUE))>> ELSE <<>>)
                    \o (IF ~Truthy(iw) THEN <<Prop("include_web_public", Bool(FALSE))>> ELSE <<>>)
                    \o (IF ~Truthy(is) THEN <<Prop("include_subscribed", Bool(FALSE))>> ELSE <<>>))
  IN Guarded("Error getting streams:", ReadClient(client, "streams", Call("streams.retrieve", params)))

sendStreamMessage(client, streamName, topic, content) ==
  Guarded("Error sending stream message:",
  ReadClient(client, "messages",
             Call("messages.send",
                  Obj(<< Prop("to", streamName), Prop("type", Str("stream")),
                         Prop("topic", topic), Prop("content", content) >>))))

sendDirectMessage(client, recipients, content) ==
  Guarded("Error sending direct message:",
  ReadClient(client, "messages",
             Call("messages.send",
                  Obj(<< Prop("to", recipients), Prop("type", Str("private")),
                         Prop("content", content) >>))))

addReaction(client, messageId, emojiName) ==
  Guarded("Error adding reaction:",
  ReadClient(client, "reactions",
             Call("reactions.add",
                  Obj(<< Prop("message_id", messageId), Prop("emoji_name", emojiName) >>))))

\* getMessages up to its first suspension: the stream list is fetched first
getMessages(client, streamName, topic, limit, anchor) ==
  Guarded("Error getting messages:", getStreams(client, Bool(TRUE), Bool(TRUE), Bool(TRUE)))

\* streams.find(s => s.name === streamName): the first match, or undefined
Find(streams, streamName) ==
  IF \E i \in 1..Len(streams) : Get(streams[i], "name") = streamName
  THEN streams[CHOOSE i \in 1..Len(streams) :
                 /\ Get(streams[i], "name") = streamName
                 /\ \A j \in 1..(i - 1) : Get(streams[j], "name") # streamName]
  ELSE Undefined

\* the half rounded up instead of down
HalfLimitCeil(limit) == (limit + 1) \div 2

\* Math.floor(limit / 2)
HalfLimit(limit) == limit \div 2

\* the search result is never tested
StreamNotFoundSkipped(stream) == FALSE

\* the test `!stream` on the result of the search
StreamNotFound(stream) == ~Truthy(stream)

\* getMessages from the point where the stream list has arrived
getMessagesResume(client, streamName, topic, limit, anchor, streamsResponse) ==
  LET lim == Default(limit, Num(20))
      anc == Default(anchor, Str("newest"))
      streams == Get(streamsResponse, "streams")
      stream == IF streams.t = "arr" THEN Find(streams.a, streamName) ELSE Undefined
      narrow == Arr(<< Obj(<<Prop("operator", Str("stream")), Prop("operand", streamName)>>),
                       Obj(<<Prop("operator", Str("topic")), Prop("operand", topic)>>) >>)
      params == Obj(<< Prop("narrow", Text(JSONstringify(narrow))),
                       Prop("num_before", Num(HalfLimit(lim.n))),
                       Prop("num_after", Num(HalfLimit(lim.n))),
                       Prop("anchor", anc) >>)
  IN Guarded("Error getting messages:",
             IF streams.t # "arr"
             THEN Throw(Err("Cannot read properties of undefined (reading 'find')"))
             ELSE IF StreamNotFound(stream)
             THEN Throw(Err("Stream \"" \o String(streamName) \o "\" not found"))
             ELSE ReadClient(client, "messages", Call("messages.retrieve", params)))

getTopics(client, streamId) ==
  Guarded("Error getting topics:",
  ReadClient(client, "streams",
             Call("streams.topics.retrieve", Obj(<<Prop("stream_id", streamId)>>))))

subscribeToStream(client, streamName) ==
  Guarded("Error subscribing to stream:",
  ReadClient(client, "streams",
             Call("streams.subscribe",
                  Obj(<<Prop("subscriptions",
                             Text(JSONstringify(Arr(<<Obj(<<Prop("name", streamName)>>)>>))))>>))))

getUsers(client) ==
  Guarded("Error getting users:", ReadClient(client, "users", Call("users.retrieve", Undefined)))

(***************************************************************************)
(* The call-tool handler.  A handler in progress is a record: the request, *)
(* where it is suspended, the ZulipClient methods it has called, the       *)
(* remote calls it has issued, how they settled, the responses it has      *)
(* returned and the failures it has let escape.                            *)
(***************************************************************************)
ArgNames ==
  { "include_private", "include_web_public", "include_subscribed", "channel_name",
    "topic", "content", "recipients", "message_id", "emoji_name", "limit", "anchor",
    "channel_id" }

\* reading a property the arguments object does not have gives undefined
NoArgs == [a \in ArgNames |-> Undefined]

Idle == [pc |-> "idle"]

NewHandler(request) ==
  [ pc |-> "running", name |-> request.name, hasArgs |-> request.hasArgs,
    args |-> request.args, facade |-> <<>>, calls |-> <<>>, settled |-> <<>>,
    log |-> <<>>, response |-> <<>>, escaped |-> <<>> ]

TextContent(text) == [content |-> <<[type |-> "text", text |-> text]>>]

\* error instanceof Error ? error.message : String(error)
ErrorMessage(error) == IF error.t = "Error" THEN error.message ELSE String(error)

\* a catch block that passes on every failure that is not an Error
CatchErrorsOnly(h, error) ==
  IF error.t = "Error"
  THEN [h EXCEPT !.pc = "done",
                 !.response = Append(@, TextContent(JSONstringify(
                                          Obj(<<Prop("error", Str(error.message))>>))))]
  ELSE [h EXCEPT !.pc = "done", !.escaped = Append(@, error)]

\* the catch block of the handler
Catch(h, error) ==
  [h EXCEPT !.pc = "done",
            !.response = Append(@, TextContent(JSONstringify(
                                     Obj(<<Prop("error", Str(ErrorMessage(error)))>>))))]

\* a return statement that wraps the result in an object of its own
ReturnWrapped(h, response) ==
  [h EXCEPT !.pc = "done",
            !.response = Append(@, TextContent(JSONstringify(
                                     Obj(<<Prop("result", response)>>))))]

\* the return statement that follows every delegation
Return(h, response) ==
  [h EXCEPT !.pc = "done", !.response = Append(@, TextContent(JSONstringify(response)))]

\* `await zulipClient.method(...)`: the method throws, or the handler suspends
Delegate(h, client, op, opArgs, outcome) ==
  LET h1 == [h EXCEPT !.facade = Append(@, [op |-> op, args |-> opArgs, client |-> client])]
  IN IF outcome.kind = "throw"
     THEN Catch([h1 EXCEPT !.log = @ \o outcome.log], outcome.error)
     ELSE [h1 EXCEPT !.pc = "await", !.calls = Append(@, outcome.call)]

\* the presence test applied only to the tools that have arguments to read
ArgumentsAbsentWhereRead(request) ==
  ~request.hasArgs /\ request.name \notin {"zulip_get_users", "nonexistent_tool"}

\* if (!request.params.arguments)
ArgumentsAbsent(request) == ~request.hasArgs

\* required-field tests that reject only when every field is missing, or that
\* test message_id for truthiness
MissingPostMessageAll(args) ==
  ~Truthy(args.channel_name) /\ ~Truthy(args.topic) /\ ~Truthy(args.content)
MissingAddReactionFalsy(args) == ~Truthy(args.message_id) \/ ~Truthy(args.emoji_name)

\* the required-field tests of the cases of the switch
MissingPostMessage(args) ==
  ~Truthy(args.channel_name) \/ ~Truthy(args.topic) \/ ~Truthy(args.content)
MissingSendDirectMessage(args) == ~Truthy(args.recipients) \/ ~Truthy(args.content)
MissingAddReaction(args) == args.message_id = Undefined \/ ~Truthy(args.emoji_name)
MissingGetChannelHistory(args) == ~Truthy(args.channel_name) \/ ~Truthy(args.topic)
MissingGetTopics(args) == args.channel_id = Undefined
MissingSubscribeToChannel(args) == ~Truthy(args.channel_name)

\* a default case that does not say which tool was asked for
UnknownToolUnnamed(name) == Err("Unknown tool")

\* the default case of the switch
UnknownTool(name) == Err("Unknown tool: " \o name)

\* the handler from the arrival of the request to its first suspension
CallToolStart(request, client) ==
  LET h == NewHandler(request)
      args == request.args
  IN IF ArgumentsAbsent(request)
     THEN Catch(h, Err("No arguments provided"))
     ELSE CASE request.name = "zulip_list_channels" ->
                 Delegate(h, client, "getStreams",
                          <<args.include_private, args.include_web_public,
                            args.include_subscribed>>,
                          getStreams(client, args.include_private, args.include_web_public,
                                     args.include_subscribed))
            [] request.name = "zulip_post_message" ->
                 IF MissingPostMessage(args)
                 THEN Catch(h, Err("Missing required arguments: channel_name, topic, and content"))
                 ELSE Delegate(h, client, "sendStreamMessage",
                               <<args.channel_name, args.topic, args.content>>,
                               sendStreamMessage(client, args.channel_name, args.topic,
                                                 args.content))
            [] request.name = "zulip_send_direct_message" ->
                 IF MissingSendDirectMessage(args)
                 THEN Catch(h, Err("Missing required arguments: recipients and content"))
                 ELSE Delegate(h, client, "sendDirectMessage",
                               <<args.recipients, args.content>>,
                               sendDirectMessage(client, args.recipients, args.content))
            [] request.name = "zulip_add_reaction" ->
                 IF MissingAddReaction(args)
                 THEN Catch(h, Err("Missing required arguments: message_id and emoji_name"))
                 ELSE Delegate(h, client, "addReaction",
                               <<args.message_id, args.emoji_name>>,
                               addReaction(client, args.message_id, args.emoji_name))
            [] request.name = "zulip_get_channel_history" ->
                 IF MissingGetChannelHistory(args)
                 THEN Catch(h, Err("Missing required arguments: channel_name and topic"))
                 ELSE Delegate(h, client, "getMessages",
                               <<args.channel_name, args.topic, args.limit, args.anchor>>,
                               getMessages(client, args.channel_name, args.topic, args.limit,
                                           args.anchor))
            [] request.name = "zulip_get_topics" ->
                 IF MissingGetTopics(args)
                 THEN Catch(h, Err("Missing required argument: channel_id"))
                 ELSE Delegate(h, client, "getTopics", <<args.channel_id>>,
                               getTopics(client, args.channel_id))
            [] request.name = "zulip_subscribe_to_channel" ->
                 IF MissingSubscribeToChannel(args)
                 THEN Catch(h, Err("Missing required argument: channel_name"))
                 ELSE Delegate(h, client, "subscribeToStream", <<args.channel_name>>,
                               subscribeToStream(client, args.channel_name))
            [] request.name = "zulip_get_users" ->
                 Delegate(h, client, "getUsers", <<>>, getUsers(client))
            [] OTHER -> Catch(h, UnknownTool(request.name))

\* the handler is suspended inside getMessages on the stream list
InGetStreamsOfGetMessages(h) ==
  h.pc = "await" /\ h.name = "zulip_get_channel_history" /\ Len(h.calls) = 1

\* the handler resumed with the value `value` of the remote call it awaits
CallToolResolved(h, client, value) ==
  LET h1 == [h EXCEPT !.settled = Append(@, [ok |-> TRUE, value |-> value])]
  IN IF InGetStreamsOfGetMessages(h)
     THEN LET outcome == getMessagesResume(client, h.args.channel_name, h.args.topic,
                                           h.args.limit, h.args.anchor, value)
          IN IF outcome.kind = "throw"
             THEN Catch([h1 EXCEPT !.log = @ \o outcome.log], outcome.error)
             ELSE [h1 EXCEPT !.calls = Append(@, outcome.call)]
     ELSE Return(h1, value)

\* the catch blocks the failure of the awaited remote call passes through
MethodLabels(h) ==
  CASE h.name = "zulip_list_channels" -> <<"Error getting streams:">>
    [] h.name = "zulip_post_message" -> <<"Error sending stream message:">>
    [] h.name = "zulip_send_direct_message" -> <<"Error sending direct message:">>
    [] h.name = "zulip_add_reaction" -> <<"Error adding reaction:">>
    [] h.name = "zulip_get_channel_history" ->
         IF InGetStreamsOfGetMessages(h)
         THEN <<"Error getting streams:", "Error getting messages:">>
         ELSE <<"Error getting messages:">>
    [] h.name = "zulip_get_topics" -> <<"Error getting topics:">>
    [] h.name = "zulip_subscribe_to_channel" -> <<"Error subscribing to stream:">>
    [] OTHER -> <<"Error getting users:">>

RECURSIVE RethrowAll(_, _)
RethrowAll(labels, error) ==
  IF labels = <<>> THEN error ELSE RethrowAll(Tail(labels), Rethrow(Head(labels), error))

\* what the catch blocks write while the failure passes through them
LogAll(labels, error) ==
  [ i \in 1..Len(labels) |->
      Logged(labels[i], RethrowAll(SubSeq(labels, 1, i - 1), error)) ]

\* the handler resumed with the failure `error` of the remote call it awaits
CallToolRejected(h, error) ==
  Catch([h EXCEPT !.settled = Append(@, [ok |-> FALSE, value |-> error]),
                  !.log = @ \o LogAll(MethodLabels(h), error)],
        RethrowAll(MethodLabels(h), error))

(***************************************************************************)
(* The environment: the requests the transport delivers and the ways the   *)
(* remote calls settle.                                                    *)
(***************************************************************************)
ToolNames ==
  { "zulip_list_channels", "zulip_post_message", "zulip_send_direct_message",
    "zulip_add_reaction", "zulip_get_channel_history", "zulip_get_topics",
    "zulip_subscribe_to_channel", "zulip_get_users", "nonexistent_tool" }

\* the argument objects tried for each tool
ArgsOf(name) ==
  CASE name = "zulip_list_channels" ->
         { [NoArgs EXCEPT !.include_private = p, !.include_web_public = w,
                          !.include_subscribed = u] :
             p \in {Undefined, Bool(TRUE), Bool(FALSE)}, w \in {Undefined, Bool(FALSE)},
             u \in {Undefined, Bool(FALSE)} }
    [] name = "zulip_post_message" ->
         { [NoArgs EXCEPT !.channel_name = c, !.topic = t, !.content = m] :
             c \in {Undefined, Str("general")}, t \in {Undefined, Str("intro")},
             m \in {Undefined, Str(""), Str("hello")} }
    [] name = "zulip_send_direct_message" ->
         { [NoArgs EXCEPT !.recipients = r, !.content = m] :
             r \in {Undefined, Arr(<<Str("a@example.com")>>)},
             m \in {Undefined, Str("hello")} }
    [] name = "zulip_add_reaction" ->
         { [NoArgs EXCEPT !.message_id = i, !.emoji_name = e] :
             i \in {Undefined, Num(0), Num(5)}, e \in {Undefined, Str("tada")} }
    [] name = "zulip_get_channel_history" ->
         { [NoArgs EXCEPT !.channel_name = c, !.topic = t, !.limit = l, !.anchor = a] :
             c \in {Undefined, Str("general"), Str("ghost-channel")},
             t \in {Undefined, Str("intro")},
             l \in {Undefined} \cup {Num(n) : n \in 0..MaxLimit},
             a \in {Undefined, Str("100")} }
    [] name = "zulip_get_topics" ->
         { [NoArgs EXCEPT !.channel_id = i] : i \in {Undefined, Num(0), Num(7)} }
    [] name = "zulip_subscribe_to_channel" ->
         { [NoArgs EXCEPT !.channel_name = c] : c \in {Undefined, Str("general")} }
    [] OTHER -> {NoArgs}

Requests ==
  { [name |-> n, hasArgs |-> FALSE, args |-> NoArgs] : n \in ToolNames }
  \cup UNION { { [name |-> n, hasArgs |-> TRUE, args |-> a] : a \in ArgsOf(n) } :
               n \in ToolNames }

Success == Prop("result", Str("success"))
Stream(name, id) == Obj(<<Prop("name", Str(name)), Prop("stream_id", Num(id))>>)

\* the decoded JSON bodies a remote call may resolve with
RemoteResults(api) ==
  CASE api = "streams.retrieve" ->
         { Obj(<<Success, Prop("msg", Str("")),
                 Prop("streams", Arr(<<Stream("general2", 9), Stream("general", 7)>>))>>),
           Obj(<<Success, Prop("streams", Arr(<<>>))>>),
           Obj(<<Prop("result", Str("error")), Prop("msg", Str("Invalid API key"))>>) }
    [] api = "messages.send" ->
         { Obj(<<Success, Prop("id", Num(42))>>),
           Obj(<<Prop("result", Str("error")), Prop("msg", Str("Invalid API key"))>>) }
    [] api = "reactions.add" -> { Obj(<<Success, Prop("msg", Str(""))>>) }
    [] api = "messages.retrieve" ->
         { Obj(<<Success, Prop("found_anchor", Bool(TRUE)),
                 Prop("messages",
                      Arr(<<Obj(<<Prop("id", Num(1)), Prop("content", Str("hi")),
                                  Prop("flags", Arr(<<Str("read")>>))>>)>>))>>),
           Obj(<<Success, Prop("found_anchor", Bool(FALSE)), Prop("messages", Arr(<<>>))>>) }
    [] api = "streams.topics.retrieve" ->
         { Obj(<<Success, Prop("topics",
                               Arr(<<Obj(<<Prop("name", Str("intro")),
                                           Prop("max_id", Num(3))>>)>>))>>) }
    [] api = "streams.subscribe" ->
         { Obj(<<Success, Prop("subscribed", Obj(<<>>)),
                 Prop("already_subscribed",
                      Obj(<<Prop("bot@example.com", Arr(<<Str("general")>>))>>))>>) }
    [] OTHER ->
         { Obj(<<Success,
                 Prop("members",
                      Arr(<<Obj(<<Prop("email", Str("a@example.com")),
                                  Prop("is_bot", Bool(FALSE)),
                                  Prop("avatar_url", Null)>>)>>))>>) }

\* the failures a remote call may reject with: an Error, or a value that is not one
RemoteFailures == { Err("fetch failed"), Str("ECONNRESET") }

\* the connection object zulipInit resolves with
Connection == [t |-> "client"]

(***************************************************************************)
(* The process.                                                            *)
(***************************************************************************)
VARIABLES
  env,       \* TRUE when ZULIP_EMAIL, ZULIP_API_KEY and ZULIP_URL are all set
  phase,     \* where main() is: "start", "connecting", "running" or "exited"
  init,      \* the promise of initClient: "none", "pending", "resolved", "rejected"
  client,    \* the field `client` of zulipClient
  handlers,  \* the call-tool handlers in progress
  listed     \* the answer of a list-tools request not yet delivered

vars == <<env, phase, init, client, handlers, listed>>

Slots == 1..MaxInFlight

Init ==
  /\ env \in BOOLEAN
  /\ phase = "start"
  /\ init = "none"
  /\ client = Undefined
  /\ handlers = [i \in Slots |-> Idle]
  /\ listed = Undefined

\* main() up to `await server.connect(transport)`: the check of the environment,
\* the construction of zulipClient (which starts initClient and does not wait
\* for it) and the registration of the two handlers
mainStart ==
  /\ phase = "start"
  /\ IF env
     THEN phase' = "connecting" /\ init' = "pending"
     ELSE phase' = "exited" /\ init' = init
  /\ UNCHANGED <<env, client, handlers, listed>>

\* initClient: zulipInit resolved and this.client is assigned
initClientResolved ==
  /\ phase # "exited"
  /\ init = "pending"
  /\ init' = "resolved"
  /\ client' = Connection
  /\ UNCHANGED <<env, phase, handlers, listed>>

\* initClient: zulipInit rejected; the failure is logged and thrown again
initClientRejected ==
  /\ phase # "exited"
  /\ init = "pending"
  /\ init' = "rejected"
  /\ UNCHANGED <<env, phase, client, handlers, listed>>

\* nothing awaits the promise of initClient: the runtime may end the process
\* on the unhandled rejection
unhandledRejection ==
  /\ phase # "exited"
  /\ init = "rejected"
  /\ phase' = "exited"
  /\ UNCHANGED <<env, init, client, handlers, listed>>

\* server.connect(transport) resolved: requests are served from now on
serverConnected ==
  /\ phase = "connecting"
  /\ phase' = "running"
  /\ UNCHANGED <<env, init, client, handlers, listed>>

\* server.connect(transport) rejected: main().catch ends the process
serverConnectFailed ==
  /\ phase = "connecting"
  /\ phase' = "exited"
  /\ UNCHANGED <<env, init, client, handlers, listed>>

\* a call-tool request arrives and its handler runs to its first suspension
CallTool ==
  /\ phase = "running"
  /\ \E i \in Slots, request \in Requests :
       /\ handlers[i] = Idle
       /\ handlers' = [handlers EXCEPT ![i] = CallToolStart(request, client)]
  /\ UNCHANGED <<env, phase, init, client, listed>>

\* the remote call a handler awaits resolves
RemoteResolved ==
  /\ phase = "running"
  /\ \E i \in Slots :
       /\ handlers[i].pc = "await"
       /\ \E value \in RemoteResults(handlers[i].calls[Len(handlers[i].calls)].api) :
            handlers' = [handlers EXCEPT ![i] = CallToolResolved(@, client, value)]
  /\ UNCHANGED <<env, phase, init, client, listed>>

\* the remote call a handler awaits rejects
RemoteRejected ==
  /\ phase = "running"
  /\ \E i \in Slots :
       /\ handlers[i].pc = "await"
       /\ \E error \in RemoteFailures :
            handlers' = [handlers EXCEPT ![i] = CallToolRejected(@, error)]
  /\ UNCHANGED <<env, phase, init, client, listed>>

\* the response of a finished handler is handed to the transport
Respond ==
  /\ phase = "running"
  /\ \E i \in Slots :
       /\ handlers[i].pc = "done"
       /\ handlers' = [handlers EXCEPT ![i] = Idle]
  /\ UNCHANGED <<env, phase, init, client, listed>>

\* a list-tools request arrives and is answered
ListTools ==
  /\ phase = "running"
  /\ listed = Undefined
  /\ listed' = ListToolsResult
  /\ UNCHANGED <<env, phase, init, client, handlers>>

\* the answer of the list-tools request is handed to the transport
ListToolsDelivered ==
  /\ phase = "running"
  /\ listed # Undefined
  /\ listed' = Undefined
  /\ UNCHANGED <<env, phase, init, client, handlers>>

Next ==
  \/ mainStart
  \/ initClientResolved
  \/ initClientRejected
  \/ unhandledRejection
  \/ serverConnected
  \/ serverConnectFailed
  \/ CallTool
  \/ RemoteResolved
  \/ RemoteRejected
  \/ Respond
  \/ ListTools
  \/ ListToolsDelivered

Spec == Init /\ [][Next]_vars

(***************************************************************************)
(* Properties.                                                             *)
(***************************************************************************)
\* the handlers in progress or finished and not yet handed to the transport
Active == { handlers[i] : i \in Slots } \ {Idle}

\* the error envelope with the given message
ErrorEnvelope(message) ==
  TextContent(<< Tok("{"), StrTok("error"), Tok(":"), StrTok(message), Tok("}") >>)

\* the names of the eight tools, in the order of the catalog
CatalogOrder ==
  << "zulip_list_channels", "zulip_post_message", "zulip_send_direct_message",
     "zulip_add_reaction", "zulip_get_channel_history", "zulip_get_topics",
     "zulip_subscribe_to_channel", "zulip_get_users" >>
CatalogNames == { CatalogOrder[i] : i \in 1..Len(CatalogOrder) }

\* C1: every call-tool request is answered with exactly one response, whose
\* content is exactly one item of type "text", and no failure leaves the
\* handler: a handler that has finished has returned one such response and let
\* nothing escape, and a handler that has not finished has returned none.
C1_OneTextResponse ==
  \A h \in Active :
    /\ h.escaped = <<>>
    /\ h.pc = "done" => Len(h.response) = 1
    /\ h.pc # "done" => h.response = <<>>
    /\ \A r \in 1..Len(h.response) :
         /\ Len(h.response[r].content) = 1
         /\ h.response[r].content[1].type = "text"

\* a handler answered after its remote call rejected with a value that is not
\* an Error
C1_Witness ==
  /\ \E h \in Active :
       /\ h.pc = "done"
       /\ h.settled # <<>>
       /\ ~h.settled[Len(h.settled)].ok
       /\ h.settled[Len(h.settled)].value.t # "Error"
       /\ Len(h.response) = 1

\* C2: a request without an arguments object is answered with the error
\* "No arguments provided", whatever the tool name (the eight tools and unknown
\* names alike), and no method of the client is called nor remote call issued.
C2_NoArguments ==
  \A h \in Active :
    ~h.hasArgs =>
      /\ h.pc = "done"
      /\ h.response = <<ErrorEnvelope("No arguments provided")>>
      /\ h.facade = <<>>
      /\ h.calls = <<>>

C2_Witness ==
  \E h \in Active : ~h.hasArgs /\ h.name = "zulip_get_users" /\ h.pc = "done"

\* C3: a request with arguments for a name that is not one of the eight tools
\* is answered with the error "Unknown tool: <name>", and no remote call is
\* issued.
C3_UnknownTool ==
  \A h \in Active :
    (h.hasArgs /\ h.name \notin CatalogNames) =>
      /\ h.pc = "done"
      /\ h.response = <<ErrorEnvelope("Unknown tool: " \o h.name)>>
      /\ h.facade = <<>>
      /\ h.calls = <<>>

C3_Witness ==
  \E h \in Active : h.hasArgs /\ h.name = "nonexistent_tool" /\ h.pc = "done"

\* the required fields the descriptor of a tool declares
RequiredOf(name) ==
  LET tools == ListToolsResult.tools
  IN tools[CHOOSE i \in 1..Len(tools) : tools[i].name = name].required

\* the text that names the given fields
MissingText(fields) ==
  CASE Len(fields) = 1 -> "Missing required argument: " \o fields[1]
    [] Len(fields) = 2 ->
         "Missing required arguments: " \o fields[1] \o " and " \o fields[2]
    [] OTHER ->
         "Missing required arguments: " \o fields[1] \o ", " \o fields[2]
           \o ", and " \o fields[3]

\* a request for a tool with required fields that omits one of them
OmitsRequired(h) ==
  /\ h.hasArgs
  /\ h.name \in CatalogNames
  /\ \E f \in 1..Len(RequiredOf(h.name)) : h.args[RequiredOf(h.name)[f]] = Undefined

\* C4: a request that omits a required field of its tool is answered with an
\* error that names the required fields of that tool, and no method of the
\* client is called nor remote call issued for it.
C4_MissingRequired ==
  \A h \in Active :
    OmitsRequired(h) =>
      /\ h.pc = "done"
      /\ h.response = <<ErrorEnvelope(MissingText(RequiredOf(h.name)))>>
      /\ h.facade = <<>>
      /\ h.calls = <<>>

\* zulip_post_message with channel_name alone
C4_Witness ==
  \E h \in Active :
    /\ h.name = "zulip_post_message"
    /\ h.hasArgs
    /\ h.args.channel_name = Str("general")
    /\ h.args.topic = Undefined
    /\ h.args.content = Undefined
    /\ h.pc = "done"

\* C5: zulip_add_reaction with a truthy emoji_name is rejected as missing
\* exactly when message_id is undefined; with message_id 0 (or any other
\* defined id) addReaction is called with that id, and the reaction-add call it
\* makes on the connection carries it.
C5_ZeroMessageId ==
  \A h \in Active :
    (h.name = "zulip_add_reaction" /\ h.hasArgs /\ Truthy(h.args.emoji_name)) =>
      IF h.args.message_id = Undefined
      THEN /\ h.pc = "done"
           /\ h.response = <<ErrorEnvelope(MissingText(RequiredOf(h.name)))>>
           /\ h.facade = <<>>
           /\ h.calls = <<>>
      ELSE /\ Len(h.facade) = 1
           /\ h.facade[1].op = "addReaction"
           /\ h.facade[1].args = <<h.args.message_id, h.args.emoji_name>>
           /\ h.response # <<ErrorEnvelope(MissingText(RequiredOf(h.name)))>>
           /\ h.facade[1].client # Undefined =>
                /\ Len(h.calls) = 1
                /\ h.calls[1].api = "reactions.add"
                /\ Get(h.calls[1].params, "message_id") = h.args.message_id

C5_Witness ==
  \E h \in Active :
    /\ h.name = "zulip_add_reaction"
    /\ h.args.message_id = Num(0)
    /\ Len(h.calls) = 1
    /\ h.calls[1].api = "reactions.add"
    /\ Get(h.calls[1].params, "message_id") = Num(0)

\* the handler has finished after every remote call of its tool resolved
RemoteSucceeded(h) ==
  /\ h.pc = "done"
  /\ Len(h.settled) = Len(h.calls)
  /\ Len(h.calls) = (IF h.name = "zulip_get_channel_history" THEN 2 ELSE 1)
  /\ \A i \in 1..Len(h.settled) : h.settled[i].ok

\* C6: when the remote call of a tool call resolves with R, the one text item
\* of the response is a JSON text that decodes to R itself: no field added or
\* removed, no error field, no wrapping object.
C6_RoundTrip ==
  \A h \in Active :
    RemoteSucceeded(h) =>
      /\ Len(h.response) = 1
      /\ Len(h.response[1].content) = 1
      /\ h.response[1].content[1].text # Undefined
      /\ JSONparse(h.response[1].content[1].text) = h.settled[Len(h.settled)].value

\* a result with nested arrays, a boolean and a null
C6_Witness ==
  \E h \in Active :
    /\ RemoteSucceeded(h)
    /\ h.name = "zulip_get_users"
    /\ Get(h.settled[1].value, "members").t = "arr"

\* the dispatcher routes the name: a request for it with arguments does not
\* end in the default case of the switch
Routed(name) ==
  CallToolStart([name |-> name, hasArgs |-> TRUE, args |-> NoArgs], Connection).response
    # <<ErrorEnvelope("Unknown tool: " \o name)>>

\* C7: every answer to a list-tools request holds exactly 8 descriptors, in the
\* fixed order of the catalog and with pairwise distinct names, and the names
\* listed are exactly the names the dispatcher routes.
C7_Catalog ==
  listed # Undefined =>
    LET tools == listed.tools
        names == { tools[i].name : i \in 1..Len(tools) }
    IN /\ Len(tools) = 8
       /\ \A i \in 1..Len(tools) : i <= Len(CatalogOrder) /\ tools[i].name = CatalogOrder[i]
       /\ \A i, j \in 1..Len(tools) : tools[i].name = tools[j].name => i = j
       /\ \A n \in ToolNames \cup names \cup CatalogNames : Routed(n) <=> n \in names
       /\ \A h \in Active :
            (h.name \in names /\ h.pc = "done") =>
              h.response # <<ErrorEnvelope("Unknown tool: " \o h.name)>>

\* a list-tools request answered while a tool call has been served before it
C7_Witness ==
  /\ listed # Undefined
  /\ \E h \in Active : h.pc = "done" /\ h.calls # <<>>

\* the limit a channel-history request asks for: 20 when it gives none
LimitOf(h) == IF h.args.limit = Undefined THEN 20 ELSE h.args.limit.n

\* C8: every message-retrieve call of the channel-history fetch carries
\* num_before = num_after = floor(limit / 2) for the limit asked for (20 when
\* absent), so the two sum to limit when it is even and to limit - 1 when it
\* is odd, and carries the anchor asked for, or "newest" when absent.
C8_HalfLimit ==
  \A h \in Active :
    \A c \in 1..Len(h.calls) :
      h.calls[c].api = "messages.retrieve" =>
        LET before == Get(h.calls[c].params, "num_before")
            after == Get(h.calls[c].params, "num_after")
        IN /\ before.t = "num" /\ after.t = "num"
           /\ before.n = after.n
           /\ 2 * before.n <= LimitOf(h) /\ LimitOf(h) <= 2 * before.n + 1
           /\ before.n + after.n = (IF LimitOf(h) % 2 = 0 THEN LimitOf(h) ELSE LimitOf(h) - 1)
           /\ Get(h.calls[c].params, "anchor") =
                (IF h.args.anchor = Undefined THEN Str("newest") ELSE h.args.anchor)

\* limit 7 retrieved as 3 before and 3 after
C8_Witness ==
  \E h \in Active :
    /\ h.args.limit = Num(7)
    /\ Len(h.calls) = 2
    /\ Get(h.calls[2].params, "num_before") = Num(3)
    /\ Get(h.calls[2].params, "num_after") = Num(3)

\* the stream list arrived and holds no stream of the name asked for
NoSuchStream(h) ==
  /\ h.name = "zulip_get_channel_history"
  /\ Len(h.settled) >= 1
  /\ h.settled[1].ok
  /\ Get(h.settled[1].value, "streams").t = "arr"
  /\ LET streams == Get(h.settled[1].value, "streams").a
     IN \A i \in 1..Len(streams) : Get(streams[i], "name") # h.args.channel_name

\* C9: a message-retrieve call is only ever the second call of a channel-history
\* fetch, after a stream-list call that includes private, web-public and
\* subscribed streams has resolved; when the list holds no stream of exactly the
\* requested name the fetch ends there: no message-retrieve call, nothing
\* escapes, and the response is the error envelope of a not-found error with
\* that name.
C9_StreamsFirst ==
  \A h \in Active :
    /\ \A c \in 1..Len(h.calls) :
         h.calls[c].api = "messages.retrieve" =>
           /\ h.name = "zulip_get_channel_history"
           /\ c = 2
           /\ h.calls[1].api = "streams.retrieve"
           /\ Get(h.calls[1].params, "include_private") = Bool(TRUE)
           /\ Get(h.calls[1].params, "include_web_public") # Bool(FALSE)
           /\ Get(h.calls[1].params, "include_subscribed") # Bool(FALSE)
           /\ Len(h.settled) >= 1 /\ h.settled[1].ok
    /\ NoSuchStream(h) =>
         /\ h.pc = "done"
         /\ Len(h.calls) = 1
         /\ h.escaped = <<>>
         /\ h.response =
              <<ErrorEnvelope("Stream \"" \o h.args.channel_name.s \o "\" not found")>>

\* "ghost-channel" looked for in a list that has other streams
C9_Witness ==
  \E h \in Active :
    /\ NoSuchStream(h)
    /\ h.args.channel_name = Str("ghost-channel")
    /\ Get(h.settled[1].value, "streams").a # <<>>

\* C10: the connection is established, or startup has failed, before the first
\* tool call is accepted: requests are served only once initClient has resolved,
\* and no method of the client is ever called while its connection is unset.
C10_TwoPhaseStartup ==
  /\ phase = "running" => init = "resolved"
  /\ \A h \in Active : \A f \in 1..Len(h.facade) : h.facade[f].client # Undefined

\* the handler has finished on the failure of the remote call it awaited
RemoteFailed(h) ==
  h.pc = "done" /\ h.settled # <<>> /\ ~h.settled[Len(h.settled)].ok

\* the label under which each method of the client reports its failures
LabelOf(op) ==
  CASE op = "getStreams" -> "Error getting streams:"
    [] op = "sendStreamMessage" -> "Error sending stream message:"
    [] op = "sendDirectMessage" -> "Error sending direct message:"
    [] op = "addReaction" -> "Error adding reaction:"
    [] op = "getMessages" -> "Error getting messages:"
    [] op = "getTopics" -> "Error getting topics:"
    [] op = "subscribeToStream" -> "Error subscribing to stream:"
    [] OTHER -> "Error getting users:"

\* C11 (as claimed): when the remote call of an operation fails, no further
\* attempt at the call is made and the failure is raised again wrapped with a
\* message that identifies the operation, so the error string of the envelope
\* says more than the message of the remote failure alone.
C11_WrappedFailure ==
  \A h \in Active :
    RemoteFailed(h) =>
      /\ Len(h.calls) = Len(h.settled)
      /\ Len(h.response) = 1
      /\ h.response # <<ErrorEnvelope(ErrorMessage(h.settled[Len(h.settled)].value))>>

\* C11 (as amended): when the remote call of an operation fails, no further
\* call is issued, every catch block the failure passes through writes it to
\* the log under its own label, the last of them the label of the operation the
\* dispatcher called, and the same failure is raised again unchanged: the error
\* string of the envelope is the message of the remote failure (its string
\* form when it is not an Error) and nothing else.
C11_LoggedAndRethrown ==
  \A h \in Active :
    RemoteFailed(h) =>
      LET failure == h.settled[Len(h.settled)].value
      IN /\ Len(h.calls) = Len(h.settled)
         /\ h.log # <<>>
         /\ \A l \in 1..Len(h.log) : h.log[l].error = failure
         /\ h.log[Len(h.log)].label = LabelOf(h.facade[1].op)
         /\ h.response = <<ErrorEnvelope(ErrorMessage(failure))>>

\* the stream list of a channel-history fetch rejected with an Error
C11_Witness ==
  \E h \in Active :
    /\ RemoteFailed(h)
    /\ h.name = "zulip_get_channel_history"
    /\ Len(h.calls) = 1
    /\ h.settled[1].value = Err("fetch failed")
    /\ Len(h.log) = 2

====
